---- MODULE Spec2Model ----
(***************************************************************************)
(* A model of GPyTorch_HPC_Tutorial.ipynb run top to bottom: the           *)
(* time-series regression pipeline followed by the spatial downscaling     *)
(* pipeline.  Tensors are modelled by their shape, their device and (for   *)
(* the time series) their contents; the numerics of the GP library are     *)
(* not modelled.  A second specification, SpecGrid, runs the test-grid     *)
(* construction of the downscaling pipeline on small regular grids with    *)
(* their contents.                                                         *)
(***************************************************************************)
EXTENDS Integers, Sequences, FiniteSets, TLC

VARIABLES
    pc,             \* the statement the run executes next
    error,          \* "none", or the exception that ended the run
    pipe,           \* "ts" or "ds": the pipeline whose cells are running
    loaded,         \* input_data_all / output_data_all are bound
    i,              \* loop variable of train()
    N_iterations,   \* the global of that name
    Num_Tiles,      \* the global of that name (0: not yet bound)
    use_cuda,       \* the global of that name
    tiles_x,        \* numpy array (shape)
    train_x, train_y, test_x, test_y,   \* tensors
    model, likelihood, optimizer,
    grad,           \* the .grad fields of the model's parameters
    output, loss,   \* the locals of train()
    preds, preds_kiss, preds_mean, preds_var,
    no_grad, fast_pred_var,             \* torch / gpytorch context settings
    stdout,         \* what print() wrote
    figures,        \* what plt.show() displayed
    steps_done,     \* optimizer steps completed, per pipeline
    last_step,      \* what the most recent optimizer.step() consumed
    numpy_calls,    \* the device of every tensor .numpy() was applied to
    g               \* state of the test-grid computation (SpecGrid)

runVars == <<pc, error, pipe, loaded, i, N_iterations, Num_Tiles, use_cuda,
             tiles_x, train_x, train_y, test_x, test_y, model, likelihood,
             optimizer, grad, output, loss, preds, preds_kiss, preds_mean,
             preds_var, no_grad, fast_pred_var, stdout, figures, steps_done,
             last_step, numpy_calls>>

vars == <<runVars, g>>

(***************************************************************************)
(* Bounds of the model and constants of the program.                       *)
(***************************************************************************)
MaxNumTiles == 16

NDays == 365

NLatTiles == 18

NLongTiles == 39

TilePts == 16

Start_Day == 10

N_Train == 120

\* the notebook's names: "long" indexes the N-S tile axis, "lat" the W-E one
long == 12

lat == 30

point == <<8, 8>>

N_iterations_ts == 500

N_iterations_ds == 81

PrintEvery == 10

Start_Lat == 4

Start_Long == 14

Day_Number == 100

Pipelines == {"ts", "ds"}

(***************************************************************************)
(* numpy helpers.                                                          *)
(***************************************************************************)
Min(a, b) == IF a <= b THEN a ELSE b

Max(a, b) == IF a >= b THEN a ELSE b

\* len(range(start, stop)[...]) of a basic slice start:stop on an axis of
\* length n: numpy clips both ends to the axis, it never raises.
SliceLen(start, stop, n) == Max(0, Min(stop, n) - Min(start, n))

\* np.arange(start, stop) as a sequence
arange(start, stop) == [k \in 1..Max(0, stop - start) |-> start + k - 1]

RECURSIVE Prod(_)
Prod(s) == IF s = <<>> THEN 1 ELSE Head(s) * Prod(Tail(s))

\* np.swapaxes on a shape
SwapShape(s, p, q) ==
    [k \in 1..Len(s) |-> IF k = p + 1 THEN s[q + 1]
                         ELSE IF k = q + 1 THEN s[p + 1] ELSE s[k]]

\* output_data_all[d, a, b, r, c]: the value is named by its place in the file
OutputAt(d, a, b, r, c) == <<d, a, b, r, c>>

(***************************************************************************)
(* Tensors, modules and the optimizer.                                     *)
(***************************************************************************)
NoTensor == [shape |-> <<>>, data |-> <<>>, device |-> "none"]

\* torch.Tensor(ndarray): a CPU tensor
Tensor(shape, data) == [shape |-> shape, data |-> data, device |-> "cpu"]

cuda(t) == [t EXCEPT !.device = "cuda"]

\* .numpy() applied without .cpu()
cpu_missing(t) == t


cpu(t) == [t EXCEPT !.device = "cpu"]

NoModule == [kind |-> "none", mode |-> "none", device |-> "none", version |-> 0]

\* a freshly constructed torch.nn.Module: on the CPU, training = True
NewModule(kind) == [kind |-> kind, mode |-> "train", device |-> "cpu", version |-> 0]

train_mode(m) == [m EXCEPT !.mode = "train"]

\* the switch to evaluation mode left out
eval_mode_missing(m) == m


eval_mode(m) == [m EXCEPT !.mode = "eval"]

NoOptimizer == [steps |-> 0, device |-> "none"]

NoGrad == [count |-> 0, version |-> -1]

\* What a call of the model, the loss or the likelihood returned, with the
\* circumstances of the call: the parameter version, modes and devices of the
\* modules called, the device of the tensor passed, the settings in force.
NoResult == [defined |-> FALSE, version |-> -1, model_mode |-> "none",
             lik_mode |-> "none", model_device |-> "none",
             lik_device |-> "none", input_device |-> "none",
             no_grad |-> FALSE, love |-> FALSE, size |-> 0, device |-> "none"]

NoStep == [count |-> 0, grad_version |-> -1, param_version |-> -1]

Device == IF use_cuda THEN "cuda" ELSE "cpu"

\* a run that goes on after an exception
Running_regardless == TRUE


Running == error = "none"

(***************************************************************************)
(* The state after the imports cell.                                       *)
(***************************************************************************)
GridIdle == [pc |-> "off"]

InitRun ==
    /\ pc = "load"
    /\ error = "none"
    /\ pipe = "ts"
    /\ loaded = FALSE
    /\ i = 0
    /\ N_iterations = 0
    /\ Num_Tiles = 0
    /\ use_cuda = FALSE
    /\ tiles_x = <<>>
    /\ train_x = NoTensor
    /\ train_y = NoTensor
    /\ test_x = NoTensor
    /\ test_y = NoTensor
    /\ model = NoModule
    /\ likelihood = NoModule
    /\ optimizer = NoOptimizer
    /\ grad = NoGrad
    /\ output = NoResult
    /\ loss = NoResult
    /\ preds = NoResult
    /\ preds_kiss = NoResult
    /\ preds_mean = NoResult
    /\ preds_var = NoResult
    /\ no_grad = FALSE
    /\ fast_pred_var = FALSE
    /\ stdout = <<>>
    /\ figures = <<>>
    /\ steps_done = [p \in Pipelines |-> 0]
    /\ last_step = NoStep
    /\ numpy_calls = <<>>

Init == InitRun /\ g = GridIdle

(***************************************************************************)
(* Exceptions.  No cell has a try block: an exception raised by a          *)
(* statement unwinds the with blocks it is in and ends the run.            *)
(***************************************************************************)
ctlVars == <<pipe, i, N_iterations, use_cuda>>

dataVars == <<loaded, Num_Tiles, tiles_x, train_x, train_y, test_x, test_y>>

trainVars == <<optimizer, grad, output, loss, steps_done, last_step>>

moduleVars == <<model, likelihood>>

predVars == <<preds, preds_kiss, preds_mean, preds_var>>

ctxVars == <<no_grad, fast_pred_var>>

outVars == <<stdout, figures, numpy_calls>>

Abort(e) ==
    /\ error' = e
    /\ no_grad' = FALSE
    /\ fast_pred_var' = FALSE
    /\ UNCHANGED <<pc, ctlVars, dataVars, trainVars, moduleVars, predVars,
                   outVars, g>>

\* Any library call may raise (a missing file, out of memory, a matrix that
\* is not positive definite, ...).
Raise ==
    /\ Running
    /\ pc # "done"
    /\ Abort("Exception")

Line(text) == [text |-> text, pipe |-> pipe, at |-> steps_done[pipe]]

(***************************************************************************)
(* Cell 2: read in the data.                                               *)
(***************************************************************************)
LoadData ==
    /\ Running
    /\ pc = "load"
    /\ loaded' = TRUE
    /\ stdout' = Append(stdout, Line("shapes"))
    /\ pc' = "ts_prep"
    /\ UNCHANGED <<error, ctlVars, Num_Tiles, tiles_x, train_x, train_y,
                   test_x, test_y, trainVars, moduleVars, predVars, ctxVars,
                   figures, numpy_calls, g>>

(***************************************************************************)
(* Cell 4: the time series of one point.                                   *)
(***************************************************************************)
\* output_data_all[start:stop, long, lat, point[0], point[1]]
SeriesSlice(start, stop) ==
    [k \in 1..SliceLen(start, stop, NDays) |->
        OutputAt(Min(start, NDays) + k - 1, long, lat, point[1], point[2])]

TsPrep ==
    /\ Running
    /\ pc = "ts_prep"
    /\ pipe' = "ts"
    /\ train_x' = Tensor(<<N_Train, 1>>, arange(Start_Day, Start_Day + N_Train))
    /\ train_y' = Tensor(<<SliceLen(Start_Day, Start_Day + N_Train, NDays)>>,
                         SeriesSlice(Start_Day, Start_Day + N_Train))
    /\ pc' = "ts_model"
    /\ UNCHANGED <<error, i, N_iterations, use_cuda, loaded, Num_Tiles,
                   tiles_x, test_x, test_y, trainVars, moduleVars, predVars,
                   ctxVars, outVars, g>>

(***************************************************************************)
(* Cell 6: likelihood and model of the time series.                        *)
(***************************************************************************)
TsModel ==
    /\ Running
    /\ pc = "ts_model"
    /\ likelihood' = NewModule("GaussianLikelihood")
    /\ model' = NewModule("ExactGP")
    /\ pc' = "ts_train_mode"
    /\ UNCHANGED <<error, ctlVars, dataVars, trainVars, predVars, ctxVars,
                   outVars, g>>

(***************************************************************************)
(* Cell 8 (and its copy in cell 17): optimizer, train(), parameter prints. *)
(***************************************************************************)
TsTrainMode ==
    /\ Running
    /\ pc = "ts_train_mode"
    /\ model' = train_mode(model)
    /\ likelihood' = train_mode(likelihood)
    /\ pc' = "ts_optimizer"
    /\ UNCHANGED <<error, ctlVars, dataVars, trainVars, predVars, ctxVars,
                   outVars, g>>

\* a loop that stops one iteration early
RangeNext_short(k, n) == IF k < n - 1 THEN "zero_grad" ELSE "print_params"

\* for i in range(n): where the loop goes once i is bound to k
RangeNext(k, n) == IF k < n THEN "zero_grad" ELSE "print_params"

\* optimizer = Adam(model.parameters()); mll = ...; N_iterations = n; train()
StartTraining(n) ==
    /\ optimizer' = [steps |-> 0, device |-> model.device]
    /\ grad' = NoGrad
    /\ N_iterations' = n
    /\ i' = 0
    /\ pc' = RangeNext(0, n)
    /\ UNCHANGED <<error, pipe, use_cuda, dataVars, output, loss, steps_done,
                   last_step, moduleVars, predVars, ctxVars, outVars, g>>

TsOptimizer ==
    /\ Running
    /\ pc = "ts_optimizer"
    /\ StartTraining(N_iterations_ts)

\* gradients left in place
zero_grad_missing(gr) == gr


zero_grad(gr) == [count |-> 0, version |-> -1]

ZeroGrad ==
    /\ Running
    /\ pc = "zero_grad"
    /\ grad' = zero_grad(grad)
    /\ pc' = "forward"
    /\ UNCHANGED <<error, ctlVars, dataVars, optimizer, output, loss,
                   steps_done, last_step, moduleVars, predVars, ctxVars,
                   outVars, g>>

\* model(x)
ModelCall(x) ==
    [defined |-> TRUE, version |-> model.version, model_mode |-> model.mode,
     lik_mode |-> "none", model_device |-> model.device,
     lik_device |-> "none", input_device |-> x.device,
     no_grad |-> no_grad, love |-> fast_pred_var, size |-> x.shape[1],
     device |-> model.device]

\* likelihood(model(x))
PredictCall(x) ==
    [ModelCall(x) EXCEPT !.lik_mode = likelihood.mode,
                         !.lik_device = likelihood.device]

\* -mll(output, y)
LossCall(out, y) ==
    [out EXCEPT !.lik_mode = likelihood.mode,
                !.lik_device = likelihood.device,
                !.input_device = y.device]

Forward ==
    /\ Running
    /\ pc = "forward"
    /\ IF model.device # train_x.device
       THEN Abort("RuntimeError")
       ELSE /\ output' = ModelCall(train_x)
            /\ pc' = "loss"
            /\ UNCHANGED <<error, ctlVars, dataVars, optimizer, grad, loss,
                           steps_done, last_step, moduleVars, predVars,
                           ctxVars, outVars, g>>

Loss ==
    /\ Running
    /\ pc = "loss"
    /\ IF \/ likelihood.device # output.device
          \/ train_y.device # output.device
          \/ train_y.shape[1] # output.size
       THEN Abort("RuntimeError")
       ELSE /\ loss' = LossCall(output, train_y)
            /\ pc' = "backward"
            /\ UNCHANGED <<error, ctlVars, dataVars, optimizer, grad, output,
                           steps_done, last_step, moduleVars, predVars,
                           ctxVars, outVars, g>>

\* loss.backward() adds the gradient of the loss to the .grad fields
backward(gr, l) == [count |-> gr.count + 1, version |-> l.version]

Backward ==
    /\ Running
    /\ pc = "backward"
    /\ grad' = backward(grad, loss)
    /\ pc' = "print"
    /\ UNCHANGED <<error, ctlVars, dataVars, optimizer, output, loss,
                   steps_done, last_step, moduleVars, predVars, ctxVars,
                   outVars, g>>

\* what the body of the loop prints in iteration k
IterationPrints(k) ==
    IF k % PrintEvery = 0
    THEN <<Line("Iteration Number"), Line("Loss")>>
    ELSE <<>>

PrintIteration ==
    /\ Running
    /\ pc = "print"
    /\ stdout' = stdout \o IterationPrints(i)
    /\ pc' = "step"
    /\ UNCHANGED <<error, ctlVars, dataVars, trainVars, moduleVars, predVars,
                   ctxVars, figures, numpy_calls, g>>

Step ==
    /\ Running
    /\ pc = "step"
    /\ optimizer' = [optimizer EXCEPT !.steps = @ + 1]
    /\ last_step' = [count |-> grad.count, grad_version |-> grad.version,
                     param_version |-> model.version]
    /\ model' = [model EXCEPT !.version = @ + 1]
    /\ steps_done' = [steps_done EXCEPT ![pipe] = @ + 1]
    /\ i' = i + 1
    /\ pc' = RangeNext(i + 1, N_iterations)
    /\ UNCHANGED <<error, pipe, N_iterations, use_cuda, dataVars, grad,
                   output, loss, likelihood, predVars, ctxVars, outVars, g>>

ParameterPrints ==
    <<Line("Noise"), Line("Length Scale"), Line("Output Scale"), Line("Mean")>>

PrintParameters ==
    /\ Running
    /\ pc = "print_params"
    /\ stdout' = stdout \o ParameterPrints
    /\ pc' = IF pipe = "ts" THEN "ts_test_prep" ELSE "ds_test_grid"
    /\ UNCHANGED <<error, ctlVars, dataVars, trainVars, moduleVars, predVars,
                   ctxVars, figures, numpy_calls, g>>

(***************************************************************************)
(* Cell 10: the forecast and its plot.                                     *)
(***************************************************************************)
\* a test window one day longer
Test_Days_long == N_Train + 31


Test_Days == N_Train + 30

Start_Test == Start_Day

TsTestPrep ==
    /\ Running
    /\ pc = "ts_test_prep"
    /\ test_x' = Tensor(<<Test_Days, 1>>,
                        arange(Start_Test, Start_Test + Test_Days))
    /\ test_y' = Tensor(<<SliceLen(Start_Test, Start_Test + Test_Days, NDays)>>,
                        SeriesSlice(Start_Test, Start_Test + Test_Days))
    /\ pc' = "ts_eval"
    /\ UNCHANGED <<error, ctlVars, loaded, Num_Tiles, tiles_x, train_x,
                   train_y, trainVars, moduleVars, predVars, ctxVars, outVars,
                   g>>

TsEval ==
    /\ Running
    /\ pc = "ts_eval"
    /\ model' = eval_mode(model)
    /\ likelihood' = eval_mode(likelihood)
    /\ pc' = "ts_no_grad"
    /\ UNCHANGED <<error, ctlVars, dataVars, trainVars, predVars, ctxVars,
                   outVars, g>>

TsNoGradEnter ==
    /\ Running
    /\ pc = "ts_no_grad"
    /\ no_grad' = TRUE
    /\ pc' = "ts_predict"
    /\ UNCHANGED <<error, ctlVars, dataVars, trainVars, moduleVars, predVars,
                   fast_pred_var, outVars, g>>

TsPredict ==
    /\ Running
    /\ pc = "ts_predict"
    /\ IF model.device # test_x.device \/ likelihood.device # model.device
       THEN Abort("RuntimeError")
       ELSE /\ preds' = PredictCall(test_x)
            /\ pc' = "ts_no_grad_exit"
            /\ UNCHANGED <<error, ctlVars, dataVars, trainVars, moduleVars,
                           preds_kiss, preds_mean, preds_var, ctxVars,
                           outVars, g>>

TsNoGradExit ==
    /\ Running
    /\ pc = "ts_no_grad_exit"
    /\ no_grad' = FALSE
    /\ pc' = "ts_plot"
    /\ UNCHANGED <<error, ctlVars, dataVars, trainVars, moduleVars, predVars,
                   fast_pred_var, outVars, g>>

\* the tensors .numpy() is applied to, in order (lower and upper are on the
\* device of preds)
TsNumpyArgs == <<test_x, test_y, test_x, preds, test_x, preds, preds>>

Devices(ts) == [k \in 1..Len(ts) |-> ts[k].device]

\* Tensor.numpy() raises TypeError on a tensor that is not on the CPU
NumpyFails(ts) == \E k \in 1..Len(ts) : ts[k].device # "cpu"

TsPlot ==
    /\ Running
    /\ pc = "ts_plot"
    /\ IF NumpyFails(TsNumpyArgs)
       THEN Abort("TypeError")
       ELSE /\ numpy_calls' = numpy_calls \o Devices(TsNumpyArgs)
            /\ figures' = Append(figures, [name |-> "fig1",
                                           axvline |-> Start_Day + N_Train])
            /\ pc' = "ds_prep"
            /\ UNCHANGED <<error, ctlVars, dataVars, trainVars, moduleVars,
                           predVars, ctxVars, stdout, g>>

(***************************************************************************)
(* Cell 13: the square of tiles to downscale.                              *)
(***************************************************************************)
\* shape of a[Day_Number, Start_Lat:Start_Lat+n, Start_Long:Start_Long+n, ...]
\* for a of shape (NDays, NLatTiles, NLongTiles, TilePts, TilePts) + rest
TilesShape(n, rest) ==
    <<SliceLen(Start_Lat, Start_Lat + n, NLatTiles),
      SliceLen(Start_Long, Start_Long + n, NLongTiles),
      TilePts, TilePts>> \o rest

\* shape of a.reshape((n, -1)); <<>> when numpy cannot infer the -1
ReshapeRows(shape, n) ==
    IF n > 0 /\ Prod(shape) % n = 0 THEN <<n, Prod(shape) \div n>> ELSE <<>>

DsPrep ==
    /\ Running
    /\ pc = "ds_prep"
    /\ \E n \in 1..MaxNumTiles :
        LET tx == SwapShape(TilesShape(n, <<2>>), 1, 2)
            ty == SwapShape(TilesShape(n, <<>>), 1, 2)
            n_train == Prod(SubSeq(tx, 1, 4))
        IN  IF Day_Number >= NDays
            THEN Abort("IndexError")
            ELSE IF ReshapeRows(tx, n_train) = <<>> \/ Prod(ty) # n_train
            THEN Abort("ValueError")
            ELSE /\ Num_Tiles' = n
                 /\ pipe' = "ds"
                 /\ tiles_x' = tx
                 /\ train_x' = Tensor(ReshapeRows(tx, n_train), <<>>)
                 /\ train_y' = Tensor(<<n_train>>, <<>>)
                 /\ stdout' = stdout \o
                        <<[text |-> "tiles_x shape", pipe |-> "ds", at |-> 0],
                          [text |-> "train_x shape", pipe |-> "ds", at |-> 0],
                          [text |-> "tiles_y shape", pipe |-> "ds", at |-> 0],
                          [text |-> "train_y shape", pipe |-> "ds", at |-> 0]>>
                 /\ pc' = "ds_model"
                 /\ UNCHANGED <<error, i, N_iterations, use_cuda, loaded,
                                test_x, test_y, trainVars, moduleVars,
                                predVars, ctxVars, figures, numpy_calls, g>>

(***************************************************************************)
(* Cell 15: likelihood and KISS-GP model.                                  *)
(***************************************************************************)
DsModel ==
    /\ Running
    /\ pc = "ds_model"
    /\ likelihood' = NewModule("GaussianLikelihood")
    /\ model' = NewModule("KISS-GP")
    /\ pc' = "ds_cuda"
    /\ UNCHANGED <<error, ctlVars, dataVars, trainVars, predVars, ctxVars,
                   outVars, g>>

(***************************************************************************)
(* Cell 17: move to the GPU when there is one, then train.                 *)
(***************************************************************************)
\* x.cuda() under "if use_cuda:"
to_device(x, avail) == IF avail THEN cuda(x) ELSE x

DsCuda ==
    /\ Running
    /\ pc = "ds_cuda"
    /\ \E avail \in BOOLEAN :
        /\ use_cuda' = avail
        /\ model' = to_device(model, avail)
        /\ likelihood' = to_device(likelihood, avail)
        /\ train_x' = to_device(train_x, avail)
        /\ train_y' = to_device(train_y, avail)
    /\ pc' = "ds_optimizer"
    /\ UNCHANGED <<error, pipe, i, N_iterations, loaded, Num_Tiles, tiles_x,
                   test_x, test_y, trainVars, predVars, ctxVars, outVars, g>>

DsOptimizer ==
    /\ Running
    /\ pc = "ds_optimizer"
    /\ StartTraining(N_iterations_ds)

(***************************************************************************)
(* Cell 19: the grid of test locations (shapes; SpecGrid has the values).  *)
(***************************************************************************)
\* np.expand_dims(a, axis=(p, q)) on a shape, p < q positions of the result
ExpandShape(s, p, q) ==
    [k \in 1..Len(s) + 2 |->
        IF k = p + 1 \/ k = q + 1 THEN 1
        ELSE IF k < p + 1 THEN s[k]
        ELSE IF k < q + 1 THEN s[k - 1] ELSE s[k - 2]]

\* the shape of a + b for shapes of equal rank that broadcast together
BroadcastShape(a, b) ==
    [k \in 1..Len(a) |-> IF a[k] = 1 THEN b[k] ELSE a[k]]

DeltaShape == <<1, 1, 2, 1, 1, 2, 2>>

\* whether every index of idx (0-based) exists in an array of this shape
InBounds(idx, shape) ==
    /\ Len(idx) = Len(shape)
    /\ \A k \in 1..Len(idx) : idx[k] >= 0 /\ idx[k] < shape[k]

\* the elements cell 19 reads for dlat and dlong
DlatIndices == {<<0, 0, 0, 0, 0>>, <<0, 0, 1, 0, 0>>}

DlongIndices == {<<0, 0, 0, 1, 1>>, <<0, 0, 0, 0, 1>>}

\* test_tiles_shape
TestTilesShape(ts) == <<ts[1], ts[2] * ts[3], ts[4], ts[5] * ts[6], ts[7]>>

DsTestGrid ==
    /\ Running
    /\ pc = "ds_test_grid"
    /\ IF \E idx \in DlatIndices \cup DlongIndices : ~InBounds(idx, tiles_x)
       THEN Abort("IndexError")
       ELSE LET ts == BroadcastShape(ExpandShape(tiles_x, 2, 5), DeltaShape)
                tt == TestTilesShape(ts)
                n_test == Prod(SubSeq(tt, 1, 4))
            IN  /\ test_x' = to_device(Tensor(ReshapeRows(tt, n_test), <<>>),
                                       use_cuda)
                /\ pc' = "ds_eval"
                /\ UNCHANGED <<error, ctlVars, loaded, Num_Tiles, tiles_x,
                               train_x, train_y, test_y, trainVars,
                               moduleVars, predVars, ctxVars, outVars, g>>

(***************************************************************************)
(* Cell 21: prediction with LOVE.                                          *)
(***************************************************************************)
DsEval ==
    /\ Running
    /\ pc = "ds_eval"
    /\ model' = eval_mode(model)
    /\ likelihood' = eval_mode(likelihood)
    /\ pc' = "ds_with"
    /\ UNCHANGED <<error, ctlVars, dataVars, trainVars, predVars, ctxVars,
                   outVars, g>>

\* the with statement of the time-series cell: no_grad only
DsWithEnter_no_love ==
    /\ Running
    /\ pc = "ds_with"
    /\ no_grad' = TRUE
    /\ pc' = "ds_predict"
    /\ UNCHANGED <<error, ctlVars, dataVars, trainVars, moduleVars, predVars,
                   fast_pred_var, outVars, g>>


DsWithEnter ==
    /\ Running
    /\ pc = "ds_with"
    /\ no_grad' = TRUE
    /\ fast_pred_var' = TRUE
    /\ pc' = "ds_predict"
    /\ UNCHANGED <<error, ctlVars, dataVars, trainVars, moduleVars, predVars,
                   outVars, g>>

DsPredict ==
    /\ Running
    /\ pc = "ds_predict"
    /\ IF model.device # test_x.device \/ likelihood.device # model.device
       THEN Abort("RuntimeError")
       ELSE /\ preds_kiss' = PredictCall(test_x)
            /\ pc' = "ds_mean"
            /\ UNCHANGED <<error, ctlVars, dataVars, trainVars, moduleVars,
                           preds, preds_mean, preds_var, ctxVars, outVars, g>>

\* preds_kiss.mean / preds_kiss.variance: computed when read, under the
\* settings in force at the read
Read(p) == [p EXCEPT !.no_grad = no_grad, !.love = fast_pred_var]

DsMean ==
    /\ Running
    /\ pc = "ds_mean"
    /\ preds_mean' = Read(preds_kiss)
    /\ pc' = "ds_var"
    /\ UNCHANGED <<error, ctlVars, dataVars, trainVars, moduleVars, preds,
                   preds_kiss, preds_var, ctxVars, outVars, g>>

DsVar ==
    /\ Running
    /\ pc = "ds_var"
    /\ preds_var' = Read(preds_kiss)
    /\ pc' = "ds_with_exit"
    /\ UNCHANGED <<error, ctlVars, dataVars, trainVars, moduleVars, preds,
                   preds_kiss, preds_mean, ctxVars, outVars, g>>

DsWithExit ==
    /\ Running
    /\ pc = "ds_with_exit"
    /\ no_grad' = FALSE
    /\ fast_pred_var' = FALSE
    /\ pc' = "ds_plot"
    /\ UNCHANGED <<error, ctlVars, dataVars, trainVars, moduleVars, predVars,
                   outVars, g>>

(***************************************************************************)
(* Cell 23: original and downscaled field side by side.                    *)
(***************************************************************************)
odim == 16 * Num_Tiles

ddim == 2 * odim

\* the tensors .numpy() is applied to
DsNumpyArgs == <<cpu(preds_mean), cpu(train_y)>>

DsPlot ==
    /\ Running
    /\ pc = "ds_plot"
    /\ IF NumpyFails(DsNumpyArgs)
       THEN Abort("TypeError")
       ELSE IF preds_mean.size # ddim * ddim \/ train_y.shape[1] # odim * odim
       THEN Abort("ValueError")
       ELSE /\ numpy_calls' = numpy_calls \o Devices(DsNumpyArgs)
            /\ figures' = Append(figures, [name |-> "fig", axvline |-> -1])
            /\ pc' = "done"
            /\ UNCHANGED <<error, ctlVars, dataVars, trainVars, moduleVars,
                           predVars, ctxVars, stdout, g>>

Next ==
    \/ LoadData
    \/ TsPrep
    \/ TsModel
    \/ TsTrainMode
    \/ TsOptimizer
    \/ ZeroGrad
    \/ Forward
    \/ Loss
    \/ Backward
    \/ PrintIteration
    \/ Step
    \/ PrintParameters
    \/ TsTestPrep
    \/ TsEval
    \/ TsNoGradEnter
    \/ TsPredict
    \/ TsNoGradExit
    \/ TsPlot
    \/ DsPrep
    \/ DsModel
    \/ DsCuda
    \/ DsOptimizer
    \/ DsTestGrid
    \/ DsEval
    \/ DsWithEnter
    \/ DsPredict
    \/ DsMean
    \/ DsVar
    \/ DsWithExit
    \/ DsPlot
    \/ Raise

Spec == Init /\ [][Next]_vars

(***************************************************************************)
(* Properties of the run.                                                  *)
(***************************************************************************)
LoopPcs == {"zero_grad", "forward", "loss", "backward", "print", "step"}

Shown(name) == \E k \in 1..Len(figures) : figures[k].name = name

Days(t) == {t.data[k] : k \in 1..Len(t.data)}

ParameterNames == {"Noise", "Length Scale", "Output Scale", "Mean"}

\* C1: each pipeline goes load, reshape, model, optimize, predict, plot: a
\* pipeline's prediction is called only once all its training iterations are
\* done, its plot is shown only after its prediction, and nothing of the
\* downscaling pipeline happens before the time-series plot.
C1_StageOrder ==
    /\ train_x # NoTensor => loaded
    /\ model # NoModule => train_x # NoTensor
    /\ steps_done["ts"] > 0 => model # NoModule
    /\ pc = "ts_predict" \/ preds.defined
          => steps_done["ts"] = N_iterations_ts
    /\ Shown("fig1") => preds.defined
    /\ pipe = "ds" \/ pc = "ds_prep" \/ Num_Tiles # 0 => Shown("fig1")
    /\ model.kind = "KISS-GP" => Num_Tiles # 0 /\ tiles_x # <<>>
    /\ steps_done["ds"] > 0 => model.kind = "KISS-GP"
    /\ pc = "ds_predict" \/ preds_kiss.defined
          => steps_done["ds"] = N_iterations_ds
    /\ preds_mean.defined \/ preds_var.defined => preds_kiss.defined
    /\ Shown("fig") => preds_mean.defined

C1_Witness == pc = "done" /\ Shown("fig1") /\ Shown("fig")

\* C3: for every positive Num_Tiles the training set is a square of
\* Num_Tiles x Num_Tiles tiles of 16 x 16 points.
C3_SquareTrainingSet ==
    Num_Tiles # 0 =>
        /\ tiles_x = <<Num_Tiles, 16, Num_Tiles, 16, 2>>
        /\ train_x.shape = <<256 * Num_Tiles * Num_Tiles, 2>>
        /\ train_y.shape = <<256 * Num_Tiles * Num_Tiles>>

C5_ParametersPrintedInLoop ==
    pc = "print_params" =>
        \E k \in 1..Len(stdout) :
            stdout[k].pipe = pipe /\ stdout[k].text \in ParameterNames

\* C6: an exception ends the run where it was raised: the statement is not
\* run again and no later statement runs.
C6_FailureEndsRun ==
    [][/\ error # "none" => UNCHANGED vars
       /\ error' # "none" => pc' = pc /\ stdout' = stdout /\ figures' = figures
                             /\ steps_done' = steps_done]_vars

C6_Witness == error # "none" /\ pipe = "ds" /\ pc = "forward" /\ i > 0

\* C7: in the downscaling pipeline the model, the likelihood and the tensors
\* passed to them are all on the GPU when CUDA is available and all on the
\* CPU when not, at every call; the optimizer is made from the parameters
\* where they are trained; .numpy() is only applied to CPU tensors; no call
\* fails for a device mismatch.
C7_Devices ==
    /\ error \notin {"RuntimeError", "TypeError"}
    /\ pipe = "ds" /\ pc \in LoopPcs \cup {"print_params"} =>
        /\ model.device = Device
        /\ likelihood.device = Device
        /\ train_x.device = Device
        /\ train_y.device = Device
        /\ optimizer.device = Device
    /\ pipe = "ds" /\ pc \in {"loss", "backward", "print", "step"} =>
        /\ output.model_device = Device
        /\ output.input_device = Device
    /\ pc \in {"ds_predict", "ds_mean", "ds_var"} =>
        /\ model.device = Device
        /\ likelihood.device = Device
        /\ test_x.device = Device
    /\ preds_kiss.defined =>
        /\ preds_kiss.model_device = Device
        /\ preds_kiss.lik_device = Device
        /\ preds_kiss.input_device = Device
    /\ \A k \in 1..Len(numpy_calls) : numpy_calls[k] = "cpu"

C7_Witness ==
    /\ use_cuda
    /\ pc = "done"
    /\ preds_kiss.model_device = "cuda"
    /\ preds_kiss.input_device = "cuda"
    /\ Len(numpy_calls) = 9

\* C8: train() makes exactly N_iterations optimizer steps (500, then 81);
\* each step consumes the gradient of exactly one backward pass, taken at
\* the parameters the previous step produced; gradients never accumulate.
C8_TrainingLoop ==
    /\ pc = "print_params" =>
        /\ optimizer.steps = N_iterations
        /\ optimizer.steps = IF pipe = "ts" THEN 500 ELSE 81
    /\ pc \in LoopPcs => optimizer.steps = i /\ i < N_iterations
    /\ steps_done["ts"] <= 500 /\ steps_done["ds"] <= 81
    /\ grad.count <= 1
    /\ pc \in {"forward", "loss", "backward"} => grad.count = 0
    /\ pc = "backward" => loss.version = model.version
    /\ pc = "step" => grad.count = 1 /\ grad.version = model.version
    /\ last_step # NoStep =>
        /\ last_step.count = 1
        /\ last_step.grad_version = last_step.param_version
    /\ pc \in LoopPcs \cup {"print_params"} /\ optimizer.steps > 0 =>
        last_step.param_version = optimizer.steps - 1

C8_Witness == pc = "print_params" /\ pipe = "ds" /\ optimizer.steps = 81

\* C9: model and likelihood are in training mode in every training
\* iteration of both pipelines, in evaluation mode at every prediction, and
\* switch to evaluation mode only after the pipeline's last iteration.
C9_Modes ==
    /\ pc \in LoopPcs => model.mode = "train" /\ likelihood.mode = "train"
    /\ pc \in LoopPcs \ {"zero_grad", "forward"} => output.model_mode = "train"
    /\ pc \in {"backward", "print", "step"} => loss.lik_mode = "train"
    /\ pc \in {"ts_predict", "ds_predict"} =>
        model.mode = "eval" /\ likelihood.mode = "eval"
    /\ preds.defined => preds.model_mode = "eval" /\ preds.lik_mode = "eval"
    /\ preds_kiss.defined =>
        preds_kiss.model_mode = "eval" /\ preds_kiss.lik_mode = "eval"
    /\ model.kind = "ExactGP" /\ "eval" \in {model.mode, likelihood.mode} =>
        steps_done["ts"] = N_iterations_ts
    /\ model.kind = "KISS-GP" /\ "eval" \in {model.mode, likelihood.mode} =>
        steps_done["ds"] = N_iterations_ds

C9_Witness ==
    /\ pc = "ds_mean"
    /\ preds_kiss.model_mode = "eval"
    /\ output.model_mode = "train"
    /\ model.kind = "KISS-GP"

\* C10: fast_pred_var is on exactly inside the with block of the downscaling
\* prediction: on at the model call and at the reads of mean and variance,
\* off everywhere else, after the block and after an exception too.
C10_FastPredVar ==
    /\ fast_pred_var <=>
        error = "none" /\ pc \in {"ds_predict", "ds_mean", "ds_var", "ds_with_exit"}
    /\ preds_kiss.defined => preds_kiss.love
    /\ preds_mean.defined => preds_mean.love
    /\ preds_var.defined => preds_var.love
    /\ ~preds.love /\ ~output.love /\ ~loss.love

C10_Witness ==
    /\ pc = "ds_plot"
    /\ ~fast_pred_var
    /\ preds_kiss.love /\ preds_mean.love /\ preds_var.love

(***************************************************************************)
(* The test grid of cell 19 with its values, on small regular grids.       *)
(* An array is its shape and its elements in C order; a coordinate is an   *)
(* integer number of quarter grid steps.                                   *)
(***************************************************************************)
MaxGridTiles == 3

MaxGridPts == 3

LatSteps == {-8, -4, 4, 8}

LongSteps == {4, 8}

NoArray == [shape |-> <<>>, data |-> <<>>]

RECURSIVE FlatFrom(_, _, _, _)
FlatFrom(idx, shape, k, acc) ==
    IF k > Len(shape) THEN acc
    ELSE FlatFrom(idx, shape, k + 1, acc * shape[k] + idx[k])

\* position (0-based) of the element with index idx in the C-order data
Flat(idx, shape) == FlatFrom(idx, shape, 1, 0)

\* index (0-based) of the element at position m of the C-order data
Unflat(m, shape) ==
    [k \in 1..Len(shape) |->
        (m \div Prod(SubSeq(shape, k + 1, Len(shape)))) % shape[k]]

\* a[idx]
At(a, idx) == a.data[Flat(idx, a.shape) + 1]

\* np.swapaxes(a, p, q)
SwapAxes(a, p, q) ==
    LET shape == SwapShape(a.shape, p, q)
    IN  [shape |-> shape,
         data |-> [m \in 1..Prod(shape) |->
                      At(a, SwapShape(Unflat(m - 1, shape), p, q))]]

\* np.expand_dims(a, axis=(p, q))
ExpandDims(a, p, q) == [shape |-> ExpandShape(a.shape, p, q), data |-> a.data]

\* the index into an operand of a broadcast operation
Clip(idx, shape) == [k \in 1..Len(idx) |-> IF shape[k] = 1 THEN 0 ELSE idx[k]]

\* a + b with broadcasting
Add(a, b) ==
    LET shape == BroadcastShape(a.shape, b.shape)
        elem(idx) == At(a, Clip(idx, a.shape)) + At(b, Clip(idx, b.shape))
    IN  [shape |-> shape,
         data |-> [m \in 1..Prod(shape) |-> elem(Unflat(m - 1, shape))]]

\* a.reshape(shape)
Reshape(a, shape) == [shape |-> shape, data |-> a.data]

\* input_data_all[Day_Number, a, b, r, c, k] on a regular grid of tiles of
\* pts x pts points: latitude (k = 0) changes by slat from one row to the
\* next, longitude (k = 1) by slong from one column to the next
InputAt(in, a, b, r, c, k) ==
    IF k = 0 THEN 0 - in.slat * (a * in.pts + r)
    ELSE in.slong * (b * in.pts + c)

\* input_data_all[Day_Number, Start_Lat:Start_Lat+n, Start_Long:Start_Long+n]
SliceTiles(in) ==
    LET shape == <<SliceLen(Start_Lat, Start_Lat + in.n, NLatTiles),
                   SliceLen(Start_Long, Start_Long + in.n, NLongTiles),
                   in.pts, in.pts, 2>>
        elem(idx) == InputAt(in, Start_Lat + idx[1], Start_Long + idx[2],
                             idx[3], idx[4], idx[5])
    IN  [shape |-> shape,
         data |-> [m \in 1..Prod(shape) |-> elem(Unflat(m - 1, shape))]]

\* input tile cell increment of latitude, as cell 19 computes it
dlat(t) == At(t, <<0, 0, 0, 0, 0>>) - At(t, <<0, 0, 1, 0, 0>>)

\* input tile cell increment of longitude, as cell 19 computes it
dlong(t) == At(t, <<0, 0, 0, 1, 1>>) - At(t, <<0, 0, 0, 0, 1>>)

\* delta_vecs after its eight assignments
delta_vecs(dla, dlo) ==
    LET elem(idx) ==
            IF idx[7] = 0
            THEN (IF idx[3] = 0 THEN dla \div 4 ELSE 0 - (dla \div 4))
            ELSE (IF idx[6] = 0 THEN 0 - (dlo \div 4) ELSE dlo \div 4)
    IN  [shape |-> DeltaShape,
         data |-> [m \in 1..Prod(DeltaShape) |-> elem(Unflat(m - 1, DeltaShape))]]

GridInputs ==
    [n : 1..MaxGridTiles, pts : 2..MaxGridPts, slat : LatSteps, slong : LongSteps]

InitGrid ==
    /\ InitRun
    /\ g \in [pc : {"slice"}, in : GridInputs, error : {"none"},
              tiles_x : {NoArray}, dlat : {0}, dlong : {0},
              test_tiles : {NoArray}, test_x : {NoArray}]

GridSlice ==
    /\ g.pc = "slice"
    /\ g' = [g EXCEPT !.tiles_x = SliceTiles(g.in), !.pc = "swap"]
    /\ UNCHANGED runVars

GridSwap ==
    /\ g.pc = "swap"
    /\ g' = [g EXCEPT !.tiles_x = SwapAxes(g.tiles_x, 1, 2), !.pc = "deltas"]
    /\ UNCHANGED runVars

GridDeltas ==
    /\ g.pc = "deltas"
    /\ g' = IF \E idx \in DlatIndices \cup DlongIndices :
                  ~InBounds(idx, g.tiles_x.shape)
            THEN [g EXCEPT !.error = "IndexError", !.pc = "raised"]
            ELSE [g EXCEPT !.dlat = dlat(g.tiles_x),
                           !.dlong = dlong(g.tiles_x), !.pc = "expand"]
    /\ UNCHANGED runVars

GridExpand ==
    /\ g.pc = "expand"
    /\ g' = [g EXCEPT !.test_tiles = ExpandDims(g.tiles_x, 2, 5), !.pc = "add"]
    /\ UNCHANGED runVars

GridAdd ==
    /\ g.pc = "add"
    /\ g' = [g EXCEPT !.test_tiles = Add(g.test_tiles,
                                         delta_vecs(g.dlat, g.dlong)),
                      !.pc = "reshape"]
    /\ UNCHANGED runVars

GridReshape ==
    /\ g.pc = "reshape"
    /\ LET tt == TestTilesShape(g.test_tiles.shape)
           n_test == Prod(SubSeq(tt, 1, 4))
       IN  g' = [g EXCEPT !.test_tiles = Reshape(g.test_tiles, tt),
                          !.test_x = Reshape(g.test_tiles,
                                             ReshapeRows(tt, n_test)),
                          !.pc = "done"]
    /\ UNCHANGED runVars

NextGrid ==
    \/ GridSlice
    \/ GridSwap
    \/ GridDeltas
    \/ GridExpand
    \/ GridAdd
    \/ GridReshape

SpecGrid == InitGrid /\ [][NextGrid]_vars

\* the rows of a two-dimensional array, as a set
Rows(a) == {<<At(a, <<m, 0>>), At(a, <<m, 1>>)>> : m \in 0..(a.shape[1] - 1)}

\* the points of tiles_x
GridPoints(t) ==
    {<<t.data[2 * m - 1], t.data[2 * m]>> : m \in 1..(Len(t.data) \div 2)}

Abs(x) == IF x < 0 THEN 0 - x ELSE x

\* the differences between two adjacent points of one tile
RowStep(t) == Abs(At(t, <<0, 1, 0, 0, 0>>) - At(t, <<0, 0, 0, 0, 0>>))

ColStep(t) == Abs(At(t, <<0, 0, 0, 1, 1>>) - At(t, <<0, 0, 0, 0, 1>>))

\* the NE, SE, SW and NW neighbours of the points of tiles_x at a quarter
\* of the row and column steps
Corners(t) ==
    {<<pt[1] + s[1] * (RowStep(t) \div 4), pt[2] + s[2] * (ColStep(t) \div 4)>> :
        pt \in GridPoints(t), s \in {-1, 1} \X {-1, 1}}

\* C2: on a regular grid every point of tiles_x yields exactly four test
\* points, to its NE, SE, SW and NW, at a quarter of the latitude step and a
\* quarter of the longitude step between adjacent points of a tile, and
\* test_x holds these 4 * n_train points and no others.
C2_FourCorners ==
    g.pc = "done" =>
        /\ g.test_x.shape = <<4 * Cardinality(GridPoints(g.tiles_x)), 2>>
        /\ Cardinality(Corners(g.tiles_x)) = 4 * Cardinality(GridPoints(g.tiles_x))
        /\ Rows(g.test_x) = Corners(g.tiles_x)

(***************************************************************************)
(* The training sets of cells 4 and 13 with their values: the time series  *)
(* as the run builds it, the tiles on small regular grids, with a          *)
(* Num_Tiles that runs past the last latitude tile among them.             *)
(***************************************************************************)
\* output_data_all[Day_Number, Start_Lat:Start_Lat+n, Start_Long:Start_Long+n]
SliceTilesY(in) ==
    LET shape == <<SliceLen(Start_Lat, Start_Lat + in.n, NLatTiles),
                   SliceLen(Start_Long, Start_Long + in.n, NLongTiles),
                   in.pts, in.pts>>
        elem(idx) == OutputAt(Day_Number, Start_Lat + idx[1],
                              Start_Long + idx[2], idx[3], idx[4])
    IN  [shape |-> shape,
         data |-> [m \in 1..Prod(shape) |-> elem(Unflat(m - 1, shape))]]

\* n_train
n_train(t) == Prod(SubSeq(t.shape, 1, 4))

AlignInputs ==
    [n : 1..MaxGridTiles \cup {NLatTiles - Start_Lat + 1}, pts : 2..MaxGridPts,
     slat : LatSteps, slong : LongSteps]

InitAlign ==
    /\ InitRun
    /\ g \in [pc : {"slice"}, in : AlignInputs, tiles_x : {NoArray},
              tiles_y : {NoArray}, train_x : {NoArray}, train_y : {NoArray}]

\* train_x = tiles_x.reshape((n_train,-1)), once tiles_x is swapped
GridTrainX ==
    /\ g.pc = "deltas"
    /\ g' = [g EXCEPT !.train_x = Reshape(g.tiles_x,
                                          ReshapeRows(g.tiles_x.shape,
                                                      n_train(g.tiles_x))),
                      !.pc = "slice_y"]
    /\ UNCHANGED runVars

GridSliceY ==
    /\ g.pc = "slice_y"
    /\ g' = [g EXCEPT !.tiles_y = SliceTilesY(g.in), !.pc = "swap_y"]
    /\ UNCHANGED runVars

\* tiles_y reshaped as it was sliced
GridSwapY_missing ==
    /\ g.pc = "swap_y"
    /\ g' = [g EXCEPT !.pc = "train_y"]
    /\ UNCHANGED runVars

GridSwapY ==
    /\ g.pc = "swap_y"
    /\ g' = [g EXCEPT !.tiles_y = SwapAxes(g.tiles_y, 1, 2), !.pc = "train_y"]
    /\ UNCHANGED runVars

GridTrainY ==
    /\ g.pc = "train_y"
    /\ g' = [g EXCEPT !.train_y = Reshape(g.tiles_y, <<n_train(g.tiles_x)>>),
                      !.pc = "trained"]
    /\ UNCHANGED runVars

\* cells 2 and 4 of the run
TsData ==
    /\ (LoadData \/ TsPrep)
    /\ UNCHANGED g

NextAlign ==
    \/ TsData
    \/ GridSlice
    \/ GridSwap
    \/ GridTrainX
    \/ GridSliceY
    \/ GridSwapY
    \/ GridTrainY

SpecAlign == InitAlign /\ [][NextAlign]_vars

\* the tiles of the slice: all that exist of the Num_Tiles asked for
TilesTaken(in) ==
    <<SliceLen(Start_Lat, Start_Lat + in.n, NLatTiles),
      SliceLen(Start_Long, Start_Long + in.n, NLongTiles)>>

\* (tile row, point row, tile column, point column) of flat index m
PlaceOf(m, in) ==
    Unflat(m, <<TilesTaken(in)[1], in.pts, TilesTaken(in)[2], in.pts>>)

\* C11: training inputs and targets are index-aligned and of equal length:
\* in the time series train_x[k] is day Start_Day + k and train_y[k] the SVDI
\* of that day at point (8,8) of tile (12,30), for k in 0..N_Train-1; in the
\* downscaling set train_x[m] holds the coordinates and train_y[m] the SVDI
\* of the same (tile row, point row, tile column, point column) on day
\* Day_Number, for every flat index m.
C11_Aligned ==
    /\ train_x # NoTensor =>
        /\ train_x.shape = <<N_Train, 1>>
        /\ train_y.shape = <<N_Train>>
        /\ Len(train_x.data) = N_Train /\ Len(train_y.data) = N_Train
        /\ \A k \in 0..(N_Train - 1) :
            /\ train_x.data[k + 1] = Start_Day + k
            /\ train_y.data[k + 1] = <<Start_Day + k, 12, 30, 8, 8>>
    /\ g.pc = "trained" =>
        /\ g.train_x.shape = <<Len(g.train_y.data), 2>>
        /\ g.train_y.shape = <<Len(g.train_y.data)>>
        /\ Len(g.train_x.data) = 2 * Len(g.train_y.data)
        /\ Len(g.train_y.data) =
               TilesTaken(g.in)[1] * TilesTaken(g.in)[2] * g.in.pts * g.in.pts
        /\ \A m \in 0..(Len(g.train_y.data) - 1) :
            LET pl == PlaceOf(m, g.in)
                a == Start_Lat + pl[1]
                b == Start_Long + pl[3]
            IN  /\ At(g.train_x, <<m, 0>>) = InputAt(g.in, a, b, pl[2], pl[4], 0)
                /\ At(g.train_x, <<m, 1>>) = InputAt(g.in, a, b, pl[2], pl[4], 1)
                /\ At(g.train_y, <<m>>) = <<Day_Number, a, b, pl[2], pl[4]>>

C11_Witness ==
    /\ g.pc = "trained"
    /\ g.in.n = 3
    /\ Len(g.train_y.data) = 9 * g.in.pts * g.in.pts
    /\ pc = "ts_model"
    /\ Len(train_y.data) = N_Train

====
